---- MODULE Spec2Model ----
(***************************************************************************)
(* Distributed DCSC (divide-and-conquer strong connectivity) over a YGM    *)
(* vertex map: trim, WCC pivot selection, forward/backward marking,        *)
(* freeze and shear, together with the format-preserving pivot permuter.   *)
(***************************************************************************)
EXTENDS Integers, Naturals, Sequences, FiniteSets, Bags, TLC

(***************************************************************************)
(* Bounds of the model.                                                    *)
(***************************************************************************)
\* vertex ids of the enumerated input graphs are 1..MaxVtx
MaxVtx == 3
\* the enumerated input graphs have at most MaxEdges edges
MaxEdges == 4
\* the round counter is capped (never reached within the other bounds)
MaxIter == 8
\* number of ranks the vertex map is partitioned over
NumRanks == 2
\* the permuter is exercised alone on ranges inside 0..MaxPermId
MaxPermId == 6
\* and with every key below 2^MaxKeyBits
MaxKeyBits == 4

(***************************************************************************)
(* Unsigned machine arithmetic.  A 64-bit word is a tuple of eight 8-bit   *)
(* limbs, least significant limb first, so that the wrap-around of the     *)
(* C++ operators is kept exactly; a 32-bit word has its upper limbs zero.  *)
(***************************************************************************)
Pow2(n) == 2 ^ n

\* (uint32_t)-1 and (uint64_t)-1: the all-ones word, above every vertex id
Unset == -1

\* a < b on unsigned words
ULess(a, b) == IF a = Unset THEN FALSE ELSE IF b = Unset THEN TRUE ELSE a < b

RECURSIVE Xor(_, _)
Xor(a, b) == IF a = 0 THEN b
             ELSE IF b = 0 THEN a
             ELSE (((a % 2) + (b % 2)) % 2) + 2 * Xor(a \div 2, b \div 2)

RECURSIVE Or(_, _)
Or(a, b) == IF a = 0 THEN b
            ELSE IF b = 0 THEN a
            ELSE (IF (a % 2) = 1 \/ (b % 2) = 1 THEN 1 ELSE 0) + 2 * Or(a \div 2, b \div 2)

\* the word <<F(0), ..., F(7)>>
Word(F(_)) == <<F(0), F(1), F(2), F(3), F(4), F(5), F(6), F(7)>>

\* limb i of a word, zero above the top limb
Limb(w, i) == IF i < 8 THEN w[i + 1] ELSE 0

\* w >> n
WShr(w, n) ==
  LET q == n \div 8
      r == n % 8
      F(i) == (Limb(w, i + q) \div Pow2(r)) + (Limb(w, i + q + 1) % Pow2(r)) * Pow2(8 - r)
  IN Word(F)

WXor(a, b) == LET F(i) == Xor(Limb(a, i), Limb(b, i)) IN Word(F)

RECURSIVE WCarry(_, _, _)
\* carry into limb i of a + b
WCarry(a, b, i) ==
  IF i = 0 THEN 0 ELSE (Limb(a, i - 1) + Limb(b, i - 1) + WCarry(a, b, i - 1)) \div 256

\* a + b modulo 2^64
WAdd(a, b) == LET F(i) == (Limb(a, i) + Limb(b, i) + WCarry(a, b, i)) % 256 IN Word(F)

RECURSIVE WColumn(_, _, _, _)
\* sum of the limb products a[i] * b[k - i], i = 0..j
WColumn(a, b, k, j) ==
  IF j < 0 THEN 0 ELSE Limb(a, j) * Limb(b, k - j) + WColumn(a, b, k, j - 1)

RECURSIVE WMulCarry(_, _, _)
WMulCarry(a, b, k) == IF k = 0 THEN 0
                      ELSE (WColumn(a, b, k - 1, k - 1) + WMulCarry(a, b, k - 1)) \div 256

\* a * b modulo 2^64
WMul(a, b) == LET F(k) == (WColumn(a, b, k, k) + WMulCarry(a, b, k)) % 256 IN Word(F)

\* the low 32 bits of a word
Trunc32(w) == <<w[1], w[2], w[3], w[4], 0, 0, 0, 0>>

\* the word holding the number n < 2^24
WOfNat(n) == <<n % 256, (n \div 256) % 256, (n \div 65536) % 256, 0, 0, 0, 0, 0>>

\* the low 16 bits of a word
Low16(w) == w[1] + 256 * w[2]

\* 0x9E3779B97F4A7C15
Golden64 == <<21, 124, 74, 127, 185, 121, 55, 158>>
\* 0xBF58476D1CE4E5B9
MixMul1 == <<185, 229, 228, 28, 109, 71, 88, 191>>
\* 0x94D049BB133111EB
MixMul2 == <<235, 17, 49, 19, 187, 73, 208, 148>>
\* 0x9E3779B1, 0x85EBCA77, 0xC2B2AE3D, 0x27D4EB2F
K1Mul == <<177, 121, 55, 158, 0, 0, 0, 0>>
K1Add == <<119, 202, 235, 133, 0, 0, 0, 0>>
K2Mul == <<61, 174, 178, 194, 0, 0, 0, 0>>
K2Add == <<47, 235, 212, 39, 0, 0, 0, 0>>

(***************************************************************************)
(* FppPermuter                                                             *)
(***************************************************************************)
mix_key64_to_32(seed) ==
  LET z0 == WAdd(seed, Golden64)
      z1 == WMul(WXor(z0, WShr(z0, 30)), MixMul1)
      z2 == WMul(WXor(z1, WShr(z1, 27)), MixMul2)
      z3 == WXor(z2, WShr(z2, 31))
  IN Trunc32(WXor(z3, WShr(z3, 32)))

RECURSIVE ceil_log2_loop(_, _)
ceil_log2_loop(v, l) == IF v > 0 THEN ceil_log2_loop(v \div 2, l + 1) ELSE l

ceil_log2_u64(n) == ceil_log2_loop(n - 1, 0)

\* the round constant key * mul + add, low bit forced
RoundConstant(key, mul, add) ==
  LET k == Trunc32(WAdd(WMul(key, mul), add))
  IN [k EXCEPT ![1] = Or(k[1], 1)]

\* The object the constructor builds.  The model's ranges are far below
\* 2^16, so key_, k1_ and k2_ are kept by their low 16 bits: every use of
\* them is followed by "& mask_" with mask_ < 2^16.
FppPermuter(min_id, max_id, key) ==
  LET lo == IF ~ULess(min_id, max_id) THEN 0 ELSE min_id
      hi == IF ~ULess(min_id, max_id) THEN 0 ELSE max_id
      R  == hi - lo + 1
      m  == IF R <= 1 THEN 1 ELSE ceil_log2_u64(R)
  IN [min_id |-> lo, max_id |-> hi, R |-> R, m |-> m, mask |-> Pow2(m) - 1,
      key |-> Low16(key),
      k1 |-> Low16(RoundConstant(key, K1Mul, K1Add)),
      k2 |-> Low16(RoundConstant(key, K2Mul, K2Add))]

\* (x * k) & mask_: the 32-bit product masked to m bits is the product of
\* the operands taken modulo 2^m
mul_masked(p, x, k) == (x * (k % (p.mask + 1))) % (p.mask + 1)

XorShift(v, s) == Xor(v, v \div Pow2(s))

permute_pow2(p, x) ==
  LET half  == IF p.m \div 2 # 0 THEN p.m \div 2 ELSE 1
      third == IF (p.m + 1) \div 3 # 0 THEN (p.m + 1) \div 3 ELSE 1
      v0 == x % (p.mask + 1)
      v1 == Xor(v0, p.key) % (p.mask + 1)
      v2 == XorShift(v1, half) % (p.mask + 1)
      v3 == mul_masked(p, v2, p.k1) % (p.mask + 1)
      v4 == XorShift(v3, third) % (p.mask + 1)
      v5 == mul_masked(p, v4, p.k2) % (p.mask + 1)
      v6 == XorShift(v5, half) % (p.mask + 1)
      v7 == (v6 + p.key) % (p.mask + 1)
  IN v7

RECURSIVE fpp_permute_in_range_gt(_, _)
\* the walk with its exit test off by one: while (x > R_)
fpp_permute_in_range_gt(p, x) ==
  LET y == permute_pow2(p, x)
  IN IF y > p.R THEN fpp_permute_in_range_gt(p, y) ELSE y

RECURSIVE fpp_permute_in_range(_, _)
\* do { x = permute_pow2(x); } while (x >= R_);
fpp_permute_in_range(p, x) ==
  LET y == permute_pow2(p, x)
  IN IF y >= p.R THEN fpp_permute_in_range(p, y) ELSE y

\* operator(): the model's ranges never span 2^32 ids, so the branch for
\* the full 32-bit range is not taken
Permute(p, id) ==
  IF id < p.min_id \/ id > p.max_id THEN id
  ELSE fpp_permute_in_range(p, id - p.min_id) + p.min_id

\* A constructed permuter is held by its range and the image of every id of
\* the range; Apply is operator() on that form.
Tabulate(p) == [min_id |-> p.min_id, max_id |-> p.max_id,
                image |-> [id \in p.min_id..p.max_id |-> Permute(p, id)]]

\* the constructor runs once, then the object it built is tabulated
Construct(min_id, max_id, key) ==
  CHOOSE t \in {Tabulate(p) : p \in {FppPermuter(min_id, max_id, key)}} : TRUE

Apply(t, id) == IF id < t.min_id \/ id > t.max_id THEN id ELSE t.image[id]

(***************************************************************************)
(* The vertex map, the messages in flight and the position of the driver.  *)
(***************************************************************************)
VARIABLES
  edges,        \* the edge list read at ingest (ids already offset by one)
  vertex_map,   \* vertex id -> VtxInfo
  msgs,         \* bag of async_visit messages submitted and not yet run
  workqueue,    \* per rank: the pivot priority queue, a set of <<pivot, vtx>>
  callbacks,    \* per rank: registered pre-barrier callbacks not yet run
  pc,           \* the phase the driver is in
  todo,         \* vertices the current local_for_all has not visited yet
  iter,         \* main's round counter
  unterminated, \* main's loop variable
  perm,         \* the FppPermuter of the current round
  min_vtx,
  max_vtx,
  px,           \* an id handed to the permuter on its own
  py,           \* and what the permuter returned for it
  marked        \* history: <<mark_pred, mark_desc>> of every vertex as the
                \* latest freeze step found them

vars == <<edges, vertex_map, msgs, workqueue, callbacks, pc, todo, iter,
          unterminated, perm, min_vtx, max_vtx, px, py, marked>>

Ranks == 0..(NumRanks - 1)

\* the rank owning a key
Owner(vtx) == vtx % NumRanks

VtxInfo == [out |-> {}, in |-> {}, comp_id |-> Unset, active |-> TRUE,
            my_marker |-> Unset, my_pivot |-> Unset, wcc_pivot |-> Unset,
            mark_pred |-> FALSE, mark_desc |-> FALSE]

Vertices == DOMAIN vertex_map

\* what the handlers read and write
World == [vertex_map |-> vertex_map, msgs |-> msgs,
          workqueue |-> workqueue, callbacks |-> callbacks]

Become(w) == /\ vertex_map' = w.vertex_map
             /\ msgs' = w.msgs
             /\ workqueue' = w.workqueue
             /\ callbacks' = w.callbacks

\* async_visit of one handler to every key of a set
async_visit(w, ms) == [w EXCEPT !.msgs = @ (+) SetToBag(ms)]

\* a message leaves the bag when its handler runs
Take(w, m) == [w EXCEPT !.msgs = @ (-) SetToBag({m})]

Pending(kind) == {m \in BagToSet(msgs) : m.kind = kind}

Quiescent == msgs = EmptyBag /\ \A r \in Ranks : callbacks[r] = 0

(***************************************************************************)
(* Ingest and the id range                                                 *)
(***************************************************************************)
\* the map after create_vertex_map's barrier: add_fwd_edge and
\* add_reverse_edge have run once for every line of the file
create_vertex_map(es) ==
  [v \in {e[1] : e \in es} \cup {e[2] : e \in es} |->
     [VtxInfo EXCEPT !.out = {e[2] : e \in {f \in es : f[1] = v}},
                     !.in  = {e[1] : e \in {f \in es : f[2] = v}}]]

SetMax(S) == CHOOSE x \in S : \A y \in S : y <= x
SetMin(S) == CHOOSE x \in S : \A y \in S : x <= y

\* main's scan for the largest and the smallest id
MaxVtxOf(vm) == IF DOMAIN vm = {} THEN 0 ELSE SetMax(DOMAIN vm)
MinVtxOf(vm) == IF DOMAIN vm = {} THEN Unset ELSE SetMin(DOMAIN vm)

(***************************************************************************)
(* trim_trivial                                                            *)
(***************************************************************************)
TrimMsg(to, sender, direction) ==
  [kind |-> "trim_vtx", to |-> to, sender |-> sender, direction |-> direction]

\* trim_vtx without the test for an inactive record
trim_vtx_no_active_test(w, vtx, sender, direction) ==
  LET info == w.vertex_map[vtx]
      in1  == IF direction THEN info.in \ {sender} ELSE info.in
      out1 == IF ~direction THEN info.out \ {sender} ELSE info.out
  IN IF in1 = {} THEN
       async_visit([w EXCEPT !.vertex_map[vtx] =
                      [info EXCEPT !.in = in1, !.out = {}, !.comp_id = vtx, !.active = FALSE]],
                   {TrimMsg(desc, vtx, TRUE) : desc \in out1})
     ELSE IF out1 = {} THEN
       async_visit([w EXCEPT !.vertex_map[vtx] =
                      [info EXCEPT !.in = {}, !.out = out1, !.comp_id = vtx, !.active = FALSE]],
                   {TrimMsg(actr, vtx, FALSE) : actr \in in1})
     ELSE [w EXCEPT !.vertex_map[vtx] = [info EXCEPT !.in = in1, !.out = out1]]

\* trim_vtx labelling the vertex with the sender's id
trim_vtx_sender(w, vtx, sender, direction) ==
  LET info == w.vertex_map[vtx]
      in1  == IF direction THEN info.in \ {sender} ELSE info.in
      out1 == IF ~direction THEN info.out \ {sender} ELSE info.out
  IN IF ~info.active THEN w
     ELSE IF in1 = {} THEN
       async_visit([w EXCEPT !.vertex_map[vtx] =
                      [info EXCEPT !.in = in1, !.out = {}, !.comp_id = sender, !.active = FALSE]],
                   {TrimMsg(desc, vtx, TRUE) : desc \in out1})
     ELSE IF out1 = {} THEN
       async_visit([w EXCEPT !.vertex_map[vtx] =
                      [info EXCEPT !.in = {}, !.out = out1, !.comp_id = sender, !.active = FALSE]],
                   {TrimMsg(actr, vtx, FALSE) : actr \in in1})
     ELSE [w EXCEPT !.vertex_map[vtx] = [info EXCEPT !.in = in1, !.out = out1]]

\* trim_vtx without the test for an emptied out set
trim_vtx_no_out_test(w, vtx, sender, direction) ==
  LET info == w.vertex_map[vtx]
      in1  == IF direction THEN info.in \ {sender} ELSE info.in
      out1 == IF ~direction THEN info.out \ {sender} ELSE info.out
  IN IF ~info.active THEN w
     ELSE IF in1 = {} THEN
       async_visit([w EXCEPT !.vertex_map[vtx] =
                      [info EXCEPT !.in = in1, !.out = {}, !.comp_id = vtx, !.active = FALSE]],
                   {TrimMsg(desc, vtx, TRUE) : desc \in out1})
     ELSE [w EXCEPT !.vertex_map[vtx] = [info EXCEPT !.in = in1, !.out = out1]]

\* trim_vtx erasing the sender from the wrong side
trim_vtx_swapped(w, vtx, sender, direction) ==
  LET info == w.vertex_map[vtx]
      in1  == IF ~direction THEN info.in \ {sender} ELSE info.in
      out1 == IF direction THEN info.out \ {sender} ELSE info.out
  IN IF ~info.active THEN w
     ELSE IF in1 = {} THEN
       async_visit([w EXCEPT !.vertex_map[vtx] =
                      [info EXCEPT !.in = in1, !.out = {}, !.comp_id = vtx, !.active = FALSE]],
                   {TrimMsg(desc, vtx, TRUE) : desc \in out1})
     ELSE IF out1 = {} THEN
       async_visit([w EXCEPT !.vertex_map[vtx] =
                      [info EXCEPT !.in = {}, !.out = out1, !.comp_id = vtx, !.active = FALSE]],
                   {TrimMsg(actr, vtx, FALSE) : actr \in in1})
     ELSE [w EXCEPT !.vertex_map[vtx] = [info EXCEPT !.in = in1, !.out = out1]]

\* the handler trim_vtx run on vtx
trim_vtx(w, vtx, sender, direction) ==
  LET info == w.vertex_map[vtx]
      in1  == IF direction THEN info.in \ {sender} ELSE info.in
      out1 == IF ~direction THEN info.out \ {sender} ELSE info.out
  IN IF ~info.active THEN w
     ELSE IF in1 = {} THEN
       async_visit([w EXCEPT !.vertex_map[vtx] =
                      [info EXCEPT !.in = in1, !.out = {}, !.comp_id = vtx, !.active = FALSE]],
                   {TrimMsg(desc, vtx, TRUE) : desc \in out1})
     ELSE IF out1 = {} THEN
       async_visit([w EXCEPT !.vertex_map[vtx] =
                      [info EXCEPT !.in = {}, !.out = out1, !.comp_id = vtx, !.active = FALSE]],
                   {TrimMsg(actr, vtx, FALSE) : actr \in in1})
     ELSE [w EXCEPT !.vertex_map[vtx] = [info EXCEPT !.in = in1, !.out = out1]]

\* the body of trim_trivial's local_for_all on vtx: the two tests are not
\* exclusive, the second sees the out set the first has cleared
trim_scan(w, vtx) ==
  LET info == w.vertex_map[vtx]
      w1 == IF info.in = {} THEN
              async_visit([w EXCEPT !.vertex_map[vtx] =
                             [info EXCEPT !.comp_id = vtx, !.active = FALSE, !.out = {}]],
                          {TrimMsg(desc, vtx, TRUE) : desc \in info.out})
            ELSE w
      info1 == w1.vertex_map[vtx]
      w2 == IF info1.out = {} THEN
              async_visit([w1 EXCEPT !.vertex_map[vtx] =
                             [info1 EXCEPT !.comp_id = vtx, !.active = FALSE, !.in = {}]],
                          {TrimMsg(actr, vtx, FALSE) : actr \in info1.in})
            ELSE w1
  IN IF info.active THEN w2 ELSE w

(***************************************************************************)
(* init_wcc_pivots                                                         *)
(***************************************************************************)
\* seed = 0x9E3779B97F4A7C15 + iter, mixed down to the 32-bit key
RECURSIVE KeySeq(_)
KeySeq(n) == IF n = 0 THEN << >>
             ELSE Append(KeySeq(n - 1), mix_key64_to_32(WAdd(Golden64, WOfNat(n - 1))))

\* the key of round iter is KeyOfIter[iter + 1]
KeyOfIter == KeySeq(MaxIter + 2)

\* the first local_for_all: every active vertex draws its pivot rank
init_pivot(p, vtx, info) ==
  IF info.active
  THEN [info EXCEPT !.my_pivot = Apply(p, vtx), !.wcc_pivot = Apply(p, vtx),
                    !.my_marker = vtx]
  ELSE info

\* workqueue.push followed by register_pre_barrier_callback, on the rank of vtx
push(w, pivot, vtx) ==
  [w EXCEPT !.workqueue[Owner(vtx)] = @ \cup {<<pivot, vtx>>},
            !.callbacks[Owner(vtx)] = @ + 1]

\* the test of the seeding loop: no neighbour id permutes below wcc_pivot
is_seed(p, info) ==
  /\ info.active
  /\ \A desc \in info.out : ~ULess(Apply(p, desc), info.wcc_pivot)
  /\ \A actr \in info.in : ~ULess(Apply(p, actr), info.wcc_pivot)

\* the seeding local_for_all: every vertex passing the test is pushed, with
\* one callback registered per push
seed_all(w, p) ==
  LET seeds(r) == {v \in DOMAIN w.vertex_map :
                     Owner(v) = r /\ is_seed(p, w.vertex_map[v])}
  IN [w EXCEPT
        !.workqueue = [r \in Ranks |->
                         w.workqueue[r] \cup {<<w.vertex_map[v].my_pivot, v>> : v \in seeds(r)}],
        !.callbacks = [r \in Ranks |-> w.callbacks[r] + Cardinality(seeds(r))]]

PivotMsg(to, pivot) == [kind |-> "recv_and_enqueue", to |-> to, pivot |-> pivot]

\* std::greater on pairs: the top is the least <<pivot, vtx>>
Top(q) == CHOOSE f \in q : \A g \in q :
            ULess(f[1], g[1]) \/ (f[1] = g[1] /\ f[2] <= g[2])

\* the callback leaving a stale entry on the queue
pop_front_and_send_keep_stale(w, rank) ==
  LET w0 == [w EXCEPT !.callbacks[rank] = @ - 1]
  IN IF w.workqueue[rank] = {} THEN w0
     ELSE LET front == Top(w.workqueue[rank])
              w1 == [w0 EXCEPT !.workqueue[rank] = @ \ {front}]
              info == w.vertex_map[front[2]]
          IN IF front[1] # info.wcc_pivot THEN w0
             ELSE async_visit(
                    async_visit(w1, {PivotMsg(desc, info.wcc_pivot) : desc \in info.out}),
                    {PivotMsg(actr, info.wcc_pivot) : actr \in info.in})

\* one run of the pre-barrier callback on a rank
pop_front_and_send(w, rank) ==
  LET w0 == [w EXCEPT !.callbacks[rank] = @ - 1]
  IN IF w.workqueue[rank] = {} THEN w0
     ELSE LET front == Top(w.workqueue[rank])
              w1 == [w0 EXCEPT !.workqueue[rank] = @ \ {front}]
              info == w.vertex_map[front[2]]
          IN IF front[1] # info.wcc_pivot THEN w1
             ELSE async_visit(
                    async_visit(w1, {PivotMsg(desc, info.wcc_pivot) : desc \in info.out}),
                    {PivotMsg(actr, info.wcc_pivot) : actr \in info.in})

\* recv_and_enqueue taking every pivot that differs from its own
recv_and_enqueue_any_change(w, vtx, pivot) ==
  LET info == w.vertex_map[vtx]
  IN IF ~info.active THEN w
     ELSE IF pivot # info.wcc_pivot
     THEN push([w EXCEPT !.vertex_map[vtx].wcc_pivot = pivot], pivot, vtx)
     ELSE w

recv_and_enqueue(w, vtx, pivot) ==
  LET info == w.vertex_map[vtx]
  IN IF ~info.active THEN w
     ELSE IF ULess(pivot, info.wcc_pivot)
     THEN push([w EXCEPT !.vertex_map[vtx].wcc_pivot = pivot], pivot, vtx)
     ELSE w

(***************************************************************************)
(* prop_pivots                                                             *)
(***************************************************************************)
MarkMsg(kind, to, pivot, marker) ==
  [kind |-> kind, to |-> to, pivot |-> pivot, marker |-> marker]

\* comp_pivot_fwd without the comparison of pivots
comp_pivot_fwd_any_pivot(w, vtx, pivot, marker) ==
  LET info == w.vertex_map[vtx]
  IN IF ~info.active \/ info.mark_desc THEN w
     ELSE async_visit([w EXCEPT !.vertex_map[vtx] =
                         [info EXCEPT !.mark_desc = TRUE, !.my_marker = marker]],
                      {MarkMsg("comp_pivot_fwd", nbr, pivot, marker) : nbr \in info.out})

comp_pivot_fwd(w, vtx, pivot, marker) ==
  LET info == w.vertex_map[vtx]
  IN IF ~info.active \/ info.mark_desc THEN w
     ELSE IF pivot = info.wcc_pivot
     THEN async_visit([w EXCEPT !.vertex_map[vtx] =
                         [info EXCEPT !.mark_desc = TRUE, !.my_marker = marker]],
                      {MarkMsg("comp_pivot_fwd", nbr, pivot, marker) : nbr \in info.out})
     ELSE w

comp_pivot_bwd(w, vtx, pivot, marker) ==
  LET info == w.vertex_map[vtx]
  IN IF ~info.active \/ info.mark_pred THEN w
     ELSE IF pivot = info.wcc_pivot
     THEN async_visit([w EXCEPT !.vertex_map[vtx] =
                         [info EXCEPT !.mark_pred = TRUE, !.my_marker = marker]],
                      {MarkMsg("comp_pivot_bwd", nbr, pivot, marker) : nbr \in info.in})
     ELSE w

\* the body of prop_pivots' local_for_all on vtx
mark_scan(w, vtx) ==
  LET info == w.vertex_map[vtx]
  IN IF ~info.active THEN w
     ELSE IF info.wcc_pivot = info.my_pivot
     THEN async_visit(
            async_visit([w EXCEPT !.vertex_map[vtx] =
                           [info EXCEPT !.mark_desc = TRUE, !.mark_pred = TRUE,
                                        !.my_marker = vtx]],
                        {MarkMsg("comp_pivot_bwd", nbr, info.wcc_pivot, vtx) : nbr \in info.in}),
            {MarkMsg("comp_pivot_fwd", nbr, info.wcc_pivot, vtx) : nbr \in info.out})
     ELSE w

(***************************************************************************)
(* prep_unterminated and shear_edges                                       *)
(***************************************************************************)
\* the freeze that deactivates without writing the label
freeze_vtx_no_label(info) ==
  IF ~info.active THEN info
  ELSE IF info.mark_pred /\ info.mark_desc
  THEN [info EXCEPT !.active = FALSE]
  ELSE [info EXCEPT !.mark_pred = FALSE, !.mark_desc = FALSE, !.my_marker = Unset,
                    !.my_pivot = Unset, !.wcc_pivot = Unset]

\* the freeze taking one mark for both
freeze_vtx_either(info) ==
  IF ~info.active THEN info
  ELSE IF info.mark_pred \/ info.mark_desc
  THEN [info EXCEPT !.active = FALSE, !.comp_id = info.my_marker]
  ELSE [info EXCEPT !.mark_pred = FALSE, !.mark_desc = FALSE, !.my_marker = Unset,
                    !.my_pivot = Unset, !.wcc_pivot = Unset]

\* the freeze whose reset branch forgets the pivots
freeze_vtx_keep_pivot(info) ==
  IF ~info.active THEN info
  ELSE IF info.mark_pred /\ info.mark_desc
  THEN [info EXCEPT !.active = FALSE, !.comp_id = info.my_marker]
  ELSE [info EXCEPT !.mark_pred = FALSE, !.mark_desc = FALSE, !.my_marker = Unset]

\* the body of prep_unterminated's for_all on one record
freeze_vtx(info) ==
  IF ~info.active THEN info
  ELSE IF info.mark_pred /\ info.mark_desc
  THEN [info EXCEPT !.active = FALSE, !.comp_id = info.my_marker]
  ELSE [info EXCEPT !.mark_pred = FALSE, !.mark_desc = FALSE, !.my_marker = Unset,
                    !.my_pivot = Unset, !.wcc_pivot = Unset]

\* the count taken before the test for inactive records
count_unterminated_all(vm) == Cardinality(DOMAIN vm)

\* num_unterminated: incremented for every record that is active on entry
count_unterminated(vm) == Cardinality({v \in DOMAIN vm : vm[v].active})

prep_unterminated(vm) == [v \in DOMAIN vm |-> freeze_vtx(vm[v])]

ShearMsg(to, sender, s_pred, s_desc) ==
  [kind |-> "check_and_remove_in", to |-> to, sender |-> sender,
   s_pred |-> s_pred, s_desc |-> s_desc]

RemoveMsg(to, edge) == [kind |-> "remove_out", to |-> to, edge |-> edge]

remove_out(w, vtx, edge) == [w EXCEPT !.vertex_map[vtx].out = @ \ {edge}]

check_and_remove_in(w, vtx, sender, s_pred, s_desc) ==
  LET info == w.vertex_map[vtx]
  IN IF info.mark_pred # s_pred \/ info.mark_desc # s_desc
     THEN async_visit([w EXCEPT !.vertex_map[vtx].in = @ \ {sender}],
                      {RemoveMsg(sender, vtx)})
     ELSE w

\* the body of shear_edges' local_for_all on vtx
shear_scan(w, vtx) ==
  LET info == w.vertex_map[vtx]
  IN IF ~info.active THEN w
     ELSE async_visit(w, {ShearMsg(nbr, vtx, info.mark_pred, info.mark_desc) : nbr \in info.out})

(***************************************************************************)
(* count_sccs and count_largest_scc                                        *)
(***************************************************************************)
count_sccs(vm) == Cardinality({v \in DOMAIN vm : vm[v].comp_id = v})

\* the key of scc_sizes is 32 bits wide: (uint64_t)-1 and (uint32_t)-1 are
\* both Unset here, and ids are far below 2^32
count_largest_scc(vm) ==
  IF DOMAIN vm = {} THEN 0
  ELSE SetMax({Cardinality({u \in DOMAIN vm : vm[u].comp_id = vm[v].comp_id}) : v \in DOMAIN vm})

(***************************************************************************)
(* The run: main's loop over the phases, every local_for_all visiting its  *)
(* records in any order while submitted visits are delivered in any order. *)
(***************************************************************************)
\* before the first round no permuter has been constructed
NoPermuter == [min_id |-> 0, max_id |-> 0, image |-> [id \in {0} |-> 0]]

AllEdges == (1..MaxVtx) \X (1..MaxVtx)

\* the end-to-end scenarios: single cycle, two triangles, path, bowtie
Cycle4 == {<<1, 2>>, <<2, 3>>, <<3, 4>>, <<4, 1>>}
TwoTriangles == {<<1, 2>>, <<2, 3>>, <<3, 1>>, <<4, 5>>, <<5, 6>>, <<6, 4>>}
Path5 == {<<1, 2>>, <<2, 3>>, <<3, 4>>, <<4, 5>>}
Bowtie == TwoTriangles \cup {<<3, 4>>}

InputGraphs == {es \in SUBSET AllEdges : Cardinality(es) <= MaxEdges}
                 \cup {Cycle4, TwoTriangles, Path5, Bowtie}

\* the id ranges main can find, and for each round and range the permuter
\* init_wcc_pivots constructs (FppPermuter perm(min, max, seed)), built once
IdRanges == {<<MinVtxOf(create_vertex_map(es)), MaxVtxOf(create_vertex_map(es))>> :
               es \in InputGraphs}

RoundPermuter ==
  [i \in 0..(MaxIter + 1) |->
     [r \in IdRanges |-> Construct(r[1], r[2], KeyOfIter[i + 1])]]

Init ==
  /\ edges \in InputGraphs
  /\ vertex_map = create_vertex_map(edges)
  /\ msgs = EmptyBag
  /\ workqueue = [r \in Ranks |-> {}]
  /\ callbacks = [r \in Ranks |-> 0]
  /\ pc = "ingest_done"
  /\ todo = {}
  /\ iter = 0
  /\ unterminated = 1
  /\ perm = NoPermuter
  /\ min_vtx = MinVtxOf(vertex_map)
  /\ max_vtx = MaxVtxOf(vertex_map)
  /\ px = Unset
  /\ py = Unset
  /\ marked = [v \in DOMAIN vertex_map |-> <<FALSE, FALSE>>]

Driver == <<edges, iter, unterminated, perm, min_vtx, max_vtx, px, py, marked>>

\* while (unterminated): enter the next round or leave the loop
LoopTest ==
  /\ pc \in {"ingest_done", "shear_done"}
  /\ IF unterminated # 0
     THEN iter <= MaxIter /\ pc' = "trim" /\ todo' = Vertices
     ELSE pc' = "done" /\ todo' = {}
  /\ UNCHANGED <<vertex_map, msgs, workqueue, callbacks>>
  /\ UNCHANGED Driver

TrimScan ==
  /\ pc = "trim"
  /\ \E vtx \in todo :
       /\ Become(trim_scan(World, vtx))
       /\ todo' = todo \ {vtx}
  /\ UNCHANGED pc
  /\ UNCHANGED Driver

TrimVtx ==
  /\ pc = "trim"
  /\ \E m \in Pending("trim_vtx") :
       Become(trim_vtx(Take(World, m), m.to, m.sender, m.direction))
  /\ UNCHANGED <<pc, todo>>
  /\ UNCHANGED Driver

TrimBarrier ==
  /\ pc = "trim" /\ todo = {} /\ Quiescent
  /\ pc' = "trim_done"
  /\ UNCHANGED <<vertex_map, msgs, workqueue, callbacks, todo>>
  /\ UNCHANGED Driver

\* the permuter of the round and the first local_for_all, up to its barrier
InitPivots ==
  /\ pc = "trim_done"
  /\ perm' = RoundPermuter[iter][<<min_vtx, max_vtx>>]
  /\ vertex_map' = [v \in Vertices |-> init_pivot(perm', v, vertex_map[v])]
  /\ pc' = "init_done"
  /\ UNCHANGED <<edges, msgs, workqueue, callbacks, todo, iter, unterminated,
                 min_vtx, max_vtx, px, py, marked>>

\* the seeding local_for_all: it submits no visit, and the callbacks it
\* registers run only in the barrier that follows
SeedPivots ==
  /\ pc = "init_done"
  /\ Become(seed_all(World, perm))
  /\ pc' = "propagate"
  /\ UNCHANGED todo
  /\ UNCHANGED Driver

PopFrontAndSend ==
  /\ pc = "propagate"
  /\ \E rank \in Ranks :
       /\ callbacks[rank] > 0
       /\ Become(pop_front_and_send(World, rank))
  /\ UNCHANGED <<pc, todo>>
  /\ UNCHANGED Driver

RecvAndEnqueue ==
  /\ pc = "propagate"
  /\ \E m \in Pending("recv_and_enqueue") :
       Become(recv_and_enqueue(Take(World, m), m.to, m.pivot))
  /\ UNCHANGED <<pc, todo>>
  /\ UNCHANGED Driver

\* the barrier of the propagation, then YGM_ASSERT_RELEASE(workqueue.size() == 0)
PivotBarrier ==
  /\ pc = "propagate" /\ Quiescent
  /\ pc' = IF \A r \in Ranks : workqueue[r] = {} THEN "pivots_done" ELSE "aborted"
  /\ UNCHANGED <<vertex_map, msgs, workqueue, callbacks, todo>>
  /\ UNCHANGED Driver

\* main calls prop_pivots
EnterPropPivots ==
  /\ pc = "pivots_done"
  /\ pc' = "mark"
  /\ todo' = Vertices
  /\ UNCHANGED <<vertex_map, msgs, workqueue, callbacks>>
  /\ UNCHANGED Driver

MarkScan ==
  /\ pc = "mark"
  /\ \E vtx \in todo :
       /\ Become(mark_scan(World, vtx))
       /\ todo' = todo \ {vtx}
  /\ UNCHANGED pc
  /\ UNCHANGED Driver

CompPivotFwd ==
  /\ pc = "mark"
  /\ \E m \in Pending("comp_pivot_fwd") :
       Become(comp_pivot_fwd(Take(World, m), m.to, m.pivot, m.marker))
  /\ UNCHANGED <<pc, todo>>
  /\ UNCHANGED Driver

CompPivotBwd ==
  /\ pc = "mark"
  /\ \E m \in Pending("comp_pivot_bwd") :
       Become(comp_pivot_bwd(Take(World, m), m.to, m.pivot, m.marker))
  /\ UNCHANGED <<pc, todo>>
  /\ UNCHANGED Driver

MarkBarrier ==
  /\ pc = "mark" /\ todo = {} /\ Quiescent
  /\ pc' = "mark_done"
  /\ UNCHANGED <<vertex_map, msgs, workqueue, callbacks, todo>>
  /\ UNCHANGED Driver

\* The freeze step of the round, which main reaches through
\* freeze_scc_reset_reached and detect_termination: prep_unterminated runs
\* and its return value becomes main's unterminated.
Freeze ==
  /\ pc = "mark_done"
  /\ vertex_map' = prep_unterminated(vertex_map)
  /\ unterminated' = count_unterminated(vertex_map)
  /\ marked' = [v \in Vertices |-> <<vertex_map[v].mark_pred, vertex_map[v].mark_desc>>]
  /\ pc' = "freeze_done"
  /\ UNCHANGED <<edges, msgs, workqueue, callbacks, todo, iter, perm,
                 min_vtx, max_vtx, px, py>>

\* the shear sub-phase that follows the freeze
EnterShear ==
  /\ pc = "freeze_done"
  /\ pc' = "shear"
  /\ todo' = Vertices
  /\ UNCHANGED <<vertex_map, msgs, workqueue, callbacks>>
  /\ UNCHANGED Driver

ShearScan ==
  /\ pc = "shear"
  /\ \E vtx \in todo :
       /\ Become(shear_scan(World, vtx))
       /\ todo' = todo \ {vtx}
  /\ UNCHANGED pc
  /\ UNCHANGED Driver

CheckAndRemoveIn ==
  /\ pc = "shear"
  /\ \E m \in Pending("check_and_remove_in") :
       Become(check_and_remove_in(Take(World, m), m.to, m.sender, m.s_pred, m.s_desc))
  /\ UNCHANGED <<pc, todo>>
  /\ UNCHANGED Driver

RemoveOut ==
  /\ pc = "shear"
  /\ \E m \in Pending("remove_out") :
       Become(remove_out(Take(World, m), m.to, m.edge))
  /\ UNCHANGED <<pc, todo>>
  /\ UNCHANGED Driver

\* the barrier of shear_edges, then main's "Iteration ... left ..." line
ShearBarrier ==
  /\ pc = "shear" /\ todo = {} /\ Quiescent
  /\ pc' = "shear_done"
  /\ iter' = iter + 1
  /\ UNCHANGED <<edges, vertex_map, msgs, workqueue, callbacks, todo,
                 unterminated, perm, min_vtx, max_vtx, px, py, marked>>

Next ==
  \/ LoopTest
  \/ TrimScan
  \/ TrimVtx
  \/ TrimBarrier
  \/ InitPivots
  \/ SeedPivots
  \/ PopFrontAndSend
  \/ RecvAndEnqueue
  \/ PivotBarrier
  \/ EnterPropPivots
  \/ MarkScan
  \/ CompPivotFwd
  \/ CompPivotBwd
  \/ MarkBarrier
  \/ Freeze
  \/ EnterShear
  \/ ShearScan
  \/ CheckAndRemoveIn
  \/ RemoveOut
  \/ ShearBarrier

Spec == Init /\ [][Next]_vars

\* the program is always scheduled while it has a step to take
FairSpec == Spec /\ WF_vars(Next)

(***************************************************************************)
(* The permuter on its own: constructed over any range with any key, then  *)
(* applied to ids inside and outside the range.                            *)
(***************************************************************************)
PermInit ==
  /\ edges = {}
  /\ vertex_map = create_vertex_map({})
  /\ msgs = EmptyBag
  /\ workqueue = [r \in Ranks |-> {}]
  /\ callbacks = [r \in Ranks |-> 0]
  /\ pc = "permuter"
  /\ todo = {}
  /\ iter = 0
  /\ unterminated = 1
  /\ min_vtx \in 0..MaxPermId
  /\ max_vtx \in 0..MaxPermId
  /\ \E key \in 0..(Pow2(MaxKeyBits) - 1) : perm = Construct(min_vtx, max_vtx, WOfNat(key))
  /\ px = Unset
  /\ py = Unset
  /\ marked = [v \in DOMAIN vertex_map |-> <<FALSE, FALSE>>]

PermApply ==
  /\ pc = "permuter"
  /\ \E id \in 0..(MaxPermId + 1) :
       /\ px' = id
       /\ py' = Apply(perm, id)
  /\ UNCHANGED <<edges, vertex_map, msgs, workqueue, callbacks, pc, todo, iter,
                 unterminated, perm, min_vtx, max_vtx, marked>>

PermNext == PermApply

SpecPerm == PermInit /\ [][PermNext]_vars

TypeOK ==
  /\ pc \in {"permuter", "ingest_done", "trim", "trim_done", "init_done", "propagate", "pivots_done",
             "mark", "mark_done", "freeze_done", "shear", "shear_done", "done", "aborted"}
  /\ todo \subseteq Vertices

(***************************************************************************)
(* Graph notions the properties are stated with                            *)
(***************************************************************************)
RECURSIVE ReachSet(_, _)
\* the vertices reachable from S along directed edges of es
ReachSet(es, S) ==
  LET T == S \cup {e[2] : e \in {f \in es : f[1] \in S}}
  IN IF T = S THEN S ELSE ReachSet(es, T)

MutuallyReachable(u, v) == v \in ReachSet(edges, {u}) /\ u \in ReachSet(edges, {v})

SccOf(v) == {u \in Vertices : MutuallyReachable(u, v)}

Sccs == {SccOf(v) : v \in Vertices}

\* no directed cycle, self-loops included
Acyclic(es) == \A e \in es : e[1] \notin ReachSet(es, {e[2]})

Active == {v \in Vertices : vertex_map[v].active}

RECURSIVE ActiveWcc(_)
\* the active vertices joined to S by edges between active vertices, taken
\* as undirected
ActiveWcc(S) ==
  LET T == S \cup {n \in Active : \E u \in S : n \in vertex_map[u].out \cup vertex_map[u].in}
  IN IF T = S THEN S ELSE ActiveWcc(T)

\* the states in which a barrier has just completed
AtBarrier == pc \in {"ingest_done", "trim_done", "init_done", "pivots_done",
                     "mark_done", "freeze_done", "shear_done"}

EdgeSymmetry ==
  \A u \in Vertices : \A v \in Vertices :
    v \in vertex_map[u].out <=> u \in vertex_map[v].in

(***************************************************************************)
(* Properties                                                              *)
(***************************************************************************)
\* C1: when the round loop has exited, two vertices have the same comp_id
\* exactly when they are mutually reachable in the input graph; on the
\* bowtie the result is 2 SCCs, the largest of size 3.
C1_SccLabels ==
  pc = "done" =>
    /\ \A u \in Vertices : \A v \in Vertices :
         (vertex_map[u].comp_id = vertex_map[v].comp_id) <=> MutuallyReachable(u, v)
    /\ edges = Bowtie => count_sccs(vertex_map) = 2 /\ count_largest_scc(vertex_map) = 3

\* C2: after the barrier of pivot selection, in every round, every active
\* vertex holds the least my_pivot of its active weakly connected component.
C2_WccMin ==
  pc = "pivots_done" =>
    \A v \in Active :
      vertex_map[v].wcc_pivot = SetMin({vertex_map[u].my_pivot : u \in ActiveWcc({v})})

\* C3: at the completion of every barrier, v is in u.out exactly when u is
\* in v.in.
C3_EdgeSymmetry == AtBarrier => EdgeSymmetry

\* C5: when the round loop has exited, every vertex is inactive and has a
\* comp_id that is not the unset value.
C5_Partition ==
  pc = "done" =>
    \A v \in Vertices : ~vertex_map[v].active /\ vertex_map[v].comp_id # Unset

\* a run has ended in which some vertex was finalized by the freeze step
\* with the label of another vertex
C5_Witness ==
  /\ pc = "done"
  /\ \E v \in Vertices : vertex_map[v].comp_id \notin {v, Unset}

\* C7: when the round loop has exited, every SCC of the input graph holds
\* exactly one vertex v with comp_id = v, and count_sccs is the number of
\* SCCs.
C7_Anchors ==
  pc = "done" =>
    /\ \A c \in Sccs : Cardinality({v \in c : vertex_map[v].comp_id = v}) = 1
    /\ count_sccs(vertex_map) = Cardinality(Sccs)

\* C9: when the barrier of the trim phase completes, no active vertex has
\* an empty in set or an empty out set, and the body of a second trim pass
\* changes no record and sends nothing.
C9_TrimIdempotent ==
  pc = "trim_done" =>
    /\ \A v \in Active : vertex_map[v].in # {} /\ vertex_map[v].out # {}
    /\ \A v \in Vertices : trim_scan(World, v) = World

\* a trim barrier completed after a cascade, with vertices left active
C9_Witness ==
  /\ pc = "trim_done"
  /\ Active # {}
  /\ \E v \in Vertices : ~vertex_map[v].active /\ vertex_map[v].comp_id = v
                           /\ \E e \in edges : e[1] = v /\ e[2] \in Active

\* C10: on an input graph without a directed cycle the first trim phase
\* finalizes every vertex with its own id, and the loop exits after round 0.
C10_AcyclicTrim ==
  Acyclic(edges) =>
    /\ (pc = "trim_done" /\ iter = 0) =>
         \A v \in Vertices : ~vertex_map[v].active /\ vertex_map[v].comp_id = v
    /\ pc \in {"init_done", "propagate", "pivots_done"} => Active = {}
    /\ pc = "done" => iter = 1

\* the path 1 -> 2 -> 3 -> 4 -> 5 has been trimmed and the loop has exited
C10_Witness ==
  /\ edges = Path5
  /\ pc = "done"
  /\ \A v \in Vertices : vertex_map[v].comp_id = v

\* C4: under fair scheduling the round loop eventually exits, with no
\* vertex active and the termination test at zero.
C4_Terminates == <>(pc = "done" /\ Active = {} /\ unterminated = 0)

\* the loop has exited after more than one round with active vertices
C4_Witness == pc = "done" /\ iter >= 3

\* C6: for every key and every range [a,b] with a < b the permuter maps
\* [a,b] one-to-one onto [a,b], and returns every id outside [a,b] unchanged.
C6_Bijection ==
  (pc = "permuter" /\ min_vtx < max_vtx) =>
    /\ \A x \in min_vtx..max_vtx : Apply(perm, x) \in min_vtx..max_vtx
    /\ \A x \in min_vtx..max_vtx : \A y \in min_vtx..max_vtx :
         Apply(perm, x) = Apply(perm, y) => x = y
    /\ px # Unset =>
         IF px \in min_vtx..max_vtx THEN py \in min_vtx..max_vtx ELSE py = px

\* an id of a range that is no power of two was moved by a walk of more
\* than one step
C6_Witness ==
  /\ pc = "permuter" /\ min_vtx < max_vtx
  /\ px \in min_vtx..max_vtx
  /\ py # px
  /\ max_vtx - min_vtx + 1 \notin {2, 4, 8}

(***************************************************************************)
(* One fixed schedule of the same handlers, to compare every other         *)
(* schedule with: each local_for_all visits its records in ascending id    *)
(* order before any visit is delivered, callbacks run on the lowest rank   *)
(* first, and the message delivered next is fixed by the bag alone.        *)
(***************************************************************************)
Deliver(w, m) ==
  CASE m.kind = "trim_vtx" -> trim_vtx(Take(w, m), m.to, m.sender, m.direction)
    [] m.kind = "recv_and_enqueue" -> recv_and_enqueue(Take(w, m), m.to, m.pivot)
    [] m.kind = "comp_pivot_fwd" -> comp_pivot_fwd(Take(w, m), m.to, m.pivot, m.marker)
    [] m.kind = "comp_pivot_bwd" -> comp_pivot_bwd(Take(w, m), m.to, m.pivot, m.marker)
    [] m.kind = "check_and_remove_in" ->
         check_and_remove_in(Take(w, m), m.to, m.sender, m.s_pred, m.s_desc)
    [] m.kind = "remove_out" -> remove_out(Take(w, m), m.to, m.edge)

ScanBody(phase, w, vtx) ==
  CASE phase = "trim" -> trim_scan(w, vtx)
    [] phase = "mark" -> mark_scan(w, vtx)
    [] phase = "shear" -> shear_scan(w, vtx)

FixedInit(es) ==
  [w |-> [vertex_map |-> create_vertex_map(es), msgs |-> EmptyBag,
          workqueue |-> [r \in Ranks |-> {}], callbacks |-> [r \in Ranks |-> 0]],
   pc |-> "ingest_done", todo |-> {}, iter |-> 0, unterminated |-> 1,
   perm |-> NoPermuter]

FixedStep(st) ==
  LET vm == st.w.vertex_map
      busy == {r \in Ranks : st.w.callbacks[r] > 0}
      first == CHOOSE m \in BagToSet(st.w.msgs) : TRUE
  IN CASE st.pc \in {"ingest_done", "shear_done"} ->
            IF st.unterminated # 0
            THEN [st EXCEPT !.pc = "trim", !.todo = DOMAIN vm]
            ELSE [st EXCEPT !.pc = "done"]
       [] st.pc \in {"trim", "mark", "shear"} ->
            IF st.todo # {}
            THEN [st EXCEPT !.w = ScanBody(st.pc, st.w, SetMin(st.todo)),
                            !.todo = @ \ {SetMin(st.todo)}]
            ELSE IF st.w.msgs # EmptyBag
            THEN [st EXCEPT !.w = Deliver(st.w, first)]
            ELSE IF st.pc = "shear"
            THEN [st EXCEPT !.pc = "shear_done", !.iter = @ + 1]
            ELSE [st EXCEPT !.pc = IF st.pc = "trim" THEN "trim_done" ELSE "mark_done"]
       [] st.pc = "trim_done" ->
            [st EXCEPT !.perm = RoundPermuter[st.iter][<<MinVtxOf(vm), MaxVtxOf(vm)>>],
                       !.w.vertex_map =
                          [v \in DOMAIN vm |->
                             init_pivot(RoundPermuter[st.iter][<<MinVtxOf(vm), MaxVtxOf(vm)>>],
                                        v, vm[v])],
                       !.pc = "init_done"]
       [] st.pc = "init_done" ->
            [st EXCEPT !.w = seed_all(st.w, st.perm), !.pc = "propagate"]
       [] st.pc = "propagate" ->
            IF busy # {}
            THEN [st EXCEPT !.w = pop_front_and_send(st.w, SetMin(busy))]
            ELSE IF st.w.msgs # EmptyBag
            THEN [st EXCEPT !.w = Deliver(st.w, first)]
            ELSE [st EXCEPT !.pc = IF \A r \in Ranks : st.w.workqueue[r] = {}
                                   THEN "pivots_done" ELSE "aborted"]
       [] st.pc = "pivots_done" -> [st EXCEPT !.pc = "mark", !.todo = DOMAIN vm]
       [] st.pc = "mark_done" ->
            [st EXCEPT !.w.vertex_map = prep_unterminated(vm),
                       !.unterminated = count_unterminated(vm),
                       !.pc = "freeze_done"]
       [] st.pc = "freeze_done" -> [st EXCEPT !.pc = "shear", !.todo = DOMAIN vm]
       [] OTHER -> st

RECURSIVE FixedRun(_, _, _)
\* the fixed schedule run from st up to the position (at_pc, at_iter)
FixedRun(st, at_pc, at_iter) ==
  IF (st.pc = at_pc /\ st.iter = at_iter) \/ st.pc \in {"done", "aborted"}
  THEN st
  ELSE CHOOSE r \in {FixedRun(n, at_pc, at_iter) : n \in {FixedStep(st)}} : TRUE

\* C8: for a fixed input graph and the fixed seed schedule, the vertex map
\* at every barrier, and so the final comp_id of every vertex, is the same
\* under every order of delivery and of local iteration.
C8_Deterministic ==
  (AtBarrier \/ pc = "done") =>
    vertex_map = FixedRun(FixedInit(edges), pc, iter).w.vertex_map

\* a run has ended in which a vertex with two other predecessors, hence
\* visited from two origins, took the label of another vertex
C8_Witness ==
  /\ pc = "done"
  /\ \E v \in Vertices :
       /\ Cardinality({e \in edges : e[2] = v /\ e[1] # v}) >= 2
       /\ vertex_map[v].comp_id \notin {v, Unset}

(***************************************************************************)
(* Properties of the phases                                                *)
(***************************************************************************)
\* the barriers that end a phase in which a vertex can have become inactive,
\* and every barrier after them: the freeze is over only with its shear
AfterPruning == pc \in {"trim_done", "init_done", "pivots_done", "mark_done",
                        "shear_done", "done"}

\* C11: at the end of the barrier of the phase in which a vertex x became
\* inactive, and at every later barrier, x has a comp_id and no other
\* vertex holds x in its in set or its out set.
C11_Pruned ==
  AfterPruning =>
    \A x \in Vertices \ Active :
      /\ vertex_map[x].comp_id # Unset
      /\ \A y \in Vertices \ {x} :
           x \notin vertex_map[y].in /\ x \notin vertex_map[y].out

\* C12: the count the freeze step returns is the number of vertices it
\* left active, so that once a freeze has finalized the last active
\* vertices the loop test is zero and no further round is run.
C12_ExitCount ==
  /\ pc = "freeze_done" => unterminated = Cardinality(Active)
  /\ (pc = "shear_done" /\ Active = {}) => unterminated = 0

\* C13: after the shear that follows the freeze, every out-neighbour of an
\* active vertex ended the marking phase in the vertex's own marking class,
\* and no edge joins two vertices that ended it in different classes.
C13_Sheared ==
  pc = "shear_done" =>
    /\ \A v \in Active : \A u \in vertex_map[v].out : marked[v] = marked[u]
    /\ \A v \in Vertices : \A u \in Vertices :
         marked[v] # marked[u] => u \notin vertex_map[v].out /\ v \notin vertex_map[u].in

(***************************************************************************)
(* Pivot selection with every active vertex seeded, to compare the seeding *)
(* of local minima with: the same handlers, run from the state the first   *)
(* local_for_all left, under the fixed schedule.                           *)
(***************************************************************************)
\* the records as init_wcc_pivots' first local_for_all left them: the
\* propagation writes nothing but wcc_pivot
BeforePropagation(vm) ==
  [v \in DOMAIN vm |->
     IF vm[v].active THEN [vm[v] EXCEPT !.wcc_pivot = vm[v].my_pivot] ELSE vm[v]]

\* the seeding loop without its neighbour test
seed_every(w) ==
  LET seeds(r) == {v \in DOMAIN w.vertex_map : Owner(v) = r /\ w.vertex_map[v].active}
  IN [w EXCEPT
        !.workqueue = [r \in Ranks |->
                         w.workqueue[r] \cup {<<w.vertex_map[v].my_pivot, v>> : v \in seeds(r)}],
        !.callbacks = [r \in Ranks |-> w.callbacks[r] + Cardinality(seeds(r))]]

RECURSIVE Propagate(_)
\* callbacks and deliveries until the barrier can complete
Propagate(w) ==
  LET busy == {r \in Ranks : w.callbacks[r] > 0}
  IN IF busy # {}
     THEN CHOOSE r \in {Propagate(n) : n \in {pop_front_and_send(w, SetMin(busy))}} : TRUE
     ELSE IF w.msgs # EmptyBag
     THEN CHOOSE r \in {Propagate(n) :
                          n \in {Deliver(w, CHOOSE m \in BagToSet(w.msgs) : TRUE)}} : TRUE
     ELSE w

FullySeeded(vm) ==
  Propagate(seed_every([vertex_map |-> BeforePropagation(vm), msgs |-> EmptyBag,
                        workqueue |-> [r \in Ranks |-> {}],
                        callbacks |-> [r \in Ranks |-> 0]])).vertex_map

\* C14: in every round the wcc_pivot of every active vertex at the barrier
\* of pivot selection is the one it has when every active vertex is seeded.
C14_SeedingOptimization ==
  pc = "pivots_done" =>
    \A v \in Active : vertex_map[v].wcc_pivot = FullySeeded(vertex_map)[v].wcc_pivot

\* C15: when the barrier of pivot selection completes the work queue of
\* every rank is empty, stale entries included: every entry on a queue has
\* one registered callback that will pop it, and the assertion never fails.
C15_QueueDrained ==
  /\ pc # "aborted"
  /\ pc = "pivots_done" => \A r \in Ranks : workqueue[r] = {}
  /\ pc = "propagate" => \A r \in Ranks : Cardinality(workqueue[r]) = callbacks[r]

\* a queue holds a stale entry: its vertex has taken a smaller pivot since
\* the entry was pushed
C15_Witness ==
  /\ pc = "propagate"
  /\ \E r \in Ranks : \E f \in workqueue[r] : f[1] # vertex_map[f[2]].wcc_pivot

\* C16: in the freeze step an active vertex becomes inactive exactly when
\* both its marks are set, with comp_id = my_marker; every other active
\* vertex stays active with marks cleared and my_marker, my_pivot and
\* wcc_pivot unset; inactive vertices are left unchanged.
C16_Freeze ==
  [][(pc = "mark_done" /\ pc' = "freeze_done") =>
       \A v \in Vertices :
         LET old == vertex_map[v]
             new == vertex_map'[v]
         IN /\ ~old.active => new = old
            /\ old.active =>
                 /\ ~new.active <=> (old.mark_pred /\ old.mark_desc)
                 /\ ~new.active => new = [old EXCEPT !.active = FALSE,
                                                     !.comp_id = old.my_marker]
                 /\ new.active =>
                      /\ ~new.mark_pred /\ ~new.mark_desc
                      /\ new.my_marker = Unset /\ new.my_pivot = Unset
                      /\ new.wcc_pivot = Unset
                      /\ new.comp_id = old.comp_id
                      /\ new.in = old.in /\ new.out = old.out]_vars

\* a freeze has finalized one vertex under another's label and reset a
\* second that had one mark only
C16_Witness ==
  /\ pc = "freeze_done"
  /\ \E v \in Vertices \ Active :
       marked[v] = <<TRUE, TRUE>> /\ vertex_map[v].comp_id \notin {v, Unset}
  /\ \E v \in Active : marked[v] \in {<<TRUE, FALSE>>, <<FALSE, TRUE>>}

\* the active vertices whose my_pivot is the wcc_pivot of u
PivotOwners(u) == {r \in Active : vertex_map[r].my_pivot = vertex_map[u].wcc_pivot}

\* the marking visits in flight whose pivot is not the receiver's wcc_pivot
ForeignMarks ==
  {m \in Pending("comp_pivot_fwd") \cup Pending("comp_pivot_bwd") :
     m.pivot # vertex_map[m.to].wcc_pivot}

\* C17: at the marking barrier every active vertex with a mark set has as
\* my_marker the one active vertex whose my_pivot is its wcc_pivot, and
\* that vertex is in its weakly connected component; a marking visit whose
\* pivot is not the receiver's wcc_pivot changes nothing and sends nothing.
C17_FloodConfined ==
  /\ pc = "mark_done" =>
       \A u \in Active :
         (vertex_map[u].mark_pred \/ vertex_map[u].mark_desc) =>
           /\ PivotOwners(u) = {vertex_map[u].my_marker}
           /\ vertex_map[u].my_marker \in ActiveWcc({u})
  /\ pc = "mark" => \A m \in ForeignMarks : Deliver(World, m) = Take(World, m)

\* a marking visit is in flight to an active vertex of another pivot
C17_Witness ==
  /\ pc = "mark"
  /\ \E m \in ForeignMarks : vertex_map[m.to].active

\* a flood has marked a vertex other than its representative
C17_WitnessFlood ==
  /\ pc = "mark_done"
  /\ \E u \in Active :
       /\ vertex_map[u].mark_pred \/ vertex_map[u].mark_desc
       /\ vertex_map[u].my_marker # u

\* C18: from the initialization of a pivot-selection phase to its barrier
\* every step leaves the wcc_pivot of a vertex as it is or replaces it by a
\* smaller value, and never writes that of an inactive vertex.
C18_Monotone ==
  [][(pc \in {"init_done", "propagate"}) =>
       \A v \in Vertices :
         LET old == vertex_map[v].wcc_pivot
             new == vertex_map'[v].wcc_pivot
         IN (new = old \/ ULess(new, old)) /\ (~vertex_map[v].active => new = old)]_vars

\* a vertex has taken a pivot twice in one phase: its wcc_pivot is below
\* its my_pivot and an entry with a pivot in between is still queued
C18_Witness ==
  /\ pc = "propagate"
  /\ \E v \in Active : \E f \in workqueue[Owner(v)] :
       /\ f[2] = v
       /\ ULess(vertex_map[v].wcc_pivot, f[1])
       /\ ULess(f[1], vertex_map[v].my_pivot)

\* C19: at every barrier, and when the loop has exited, two inactive
\* vertices with the same comp_id are mutually reachable in the input graph.
C19_LabelSound ==
  (AtBarrier \/ pc = "done") =>
    \A u \in Vertices \ Active : \A v \in Vertices \ Active :
      vertex_map[u].comp_id = vertex_map[v].comp_id => MutuallyReachable(u, v)

\* a freeze has put two vertices under one label while a third vertex,
\* joined to them by an edge but in another SCC, was reached by a flood
C19_Witness ==
  /\ pc = "freeze_done"
  /\ \E u \in Vertices \ Active : \E v \in Vertices \ Active : \E x \in Vertices :
       /\ u # v
       /\ vertex_map[u].comp_id = vertex_map[v].comp_id
       /\ ~MutuallyReachable(u, x)
       /\ \E e \in edges : {e[1], e[2]} \in {{u, x}, {v, x}}
       /\ marked[x] # <<FALSE, FALSE>>

\* the trim, pivot and marking visits in flight to an inactive vertex
VisitsToInactive ==
  {m \in Pending("trim_vtx") \cup Pending("recv_and_enqueue")
          \cup Pending("comp_pivot_fwd") \cup Pending("comp_pivot_bwd") :
     ~vertex_map[m.to].active}

\* C20: once a vertex is inactive no step changes its active flag or its
\* comp_id, and a trim, pivot or marking visit that reaches an inactive
\* vertex leaves its record as it is and sends nothing.
C20_Final ==
  [][/\ \A v \in Vertices :
          ~vertex_map[v].active =>
            /\ ~vertex_map'[v].active
            /\ vertex_map'[v].comp_id = vertex_map[v].comp_id
     /\ \A m \in VisitsToInactive : Deliver(World, m) = Take(World, m)]_vars

\* in a round after the first, a trim visit is in flight to a vertex that
\* a freeze has finalized
C20_Witness ==
  /\ iter >= 1
  /\ \E m \in VisitsToInactive :
       /\ m.kind = "trim_vtx"
       /\ vertex_map[m.to].mark_pred /\ vertex_map[m.to].mark_desc

====
